---- MODULE Spec2Model ----
(***************************************************************************)
(* State-machine model of the interview front-end:                         *)
(*   App.js            Session Shell (App, InterviewSetup, InterviewReport)*)
(*   Interview.js      Interview Flow (submitAnswer, the four views)       *)
(*   AudioRecorder.js  Answer Capture (recording life cycle, answer form)  *)
(*                                                                         *)
(* Conventions.                                                            *)
(*  - A JavaScript string is a sequence of tokens; the empty sequence is   *)
(*    the empty string.  null, undefined and '' are all falsy in the code  *)
(*    (`||`, `if (error)`), and are all modelled by the empty sequence.    *)
(*  - The typed answer and the candidate name are sequences of characters  *)
(*    so that trim() is computed, not assumed.                             *)
(*  - A React component that is not rendered is unmounted: its state is    *)
(*    discarded and a later mount starts from the useState() initial       *)
(*    values.  Callbacks created by an unmounted instance (a pending       *)
(*    getUserMedia, a recorder, an interval, a fetch continuation, a       *)
(*    timeout) keep running; their setState calls have no effect, their    *)
(*    other effects (alert, onComplete, the microphone, the interval)      *)
(*    remain.                                                              *)
(***************************************************************************)
EXTENDS Integers, Sequences, FiniteSets, TLC

\* ------------------------------------------------------------------ bounds
MaxLen == 1             \* longest typed text (characters)
MaxRec == 1             \* startRecording calls in one run
MaxChunks == 1          \* chunks kept in chunksRef
MaxTime == 1            \* largest elapsed-time value the counter is followed to
MaxQuestionNumber == 2  \* the backend sends next_question only below this counter

\* ------------------------------------------------------------ value spaces
Chars == {" ", "a"}
Texts == UNION {[1..n -> Chars] : n \in 0..MaxLen}
ChunkSizes == {0, 1}
SessionIds == {"s1"}
NoQuestion == "none"
Questions == {"q1", "q2"}
NoEvaluation == "none"
Evaluations == {"ev"}
Experiences == {"beginner", "intermediate", "advanced"}
NoMessage == <<>>

\* --------------------------------------------------------- string helpers
RECURSIVE TrimLeft(_)
TrimLeft(s) ==
  IF s = <<>> THEN s
  ELSE IF Head(s) = " " THEN TrimLeft(Tail(s)) ELSE s

RECURSIVE TrimRight(_)
TrimRight(s) ==
  IF s = <<>> THEN s
  ELSE IF s[Len(s)] = " " THEN TrimRight(SubSeq(s, 1, Len(s) - 1)) ELSE s

\* String.prototype.trim
Trim(s) == TrimRight(TrimLeft(s))

\* String.prototype.includes on token strings
Includes(msg, tok) == \E i \in 1..Len(msg) : msg[i] = tok

\* a || b on strings
OrElse(a, b) == IF a # <<>> THEN a ELSE b

RECURSIVE SumSeq(_)
SumSeq(s) == IF s = <<>> THEN 0 ELSE Head(s) + SumSeq(Tail(s))

RemoveAt(s, i) == SubSeq(s, 1, i - 1) \o SubSeq(s, i + 1, Len(s))

\* ------------------------------------------------------------------ state
VARIABLES
  \* App
  currentView,      \* 'home' | 'interview' | 'report'
  sessionData,      \* the session payload, NullSession when null
  \* InterviewSetup (mounted in the home view)
  name, experience, setupLoading,
  startInflight,    \* session-creation requests awaiting their response
  \* InterviewReport (mounted in the report view)
  report, reportLoading,
  reportInflight,   \* report requests awaiting their response
  \* Interview (mounted in the interview view)
  currentQuestion, questionNumber, loading, feedback, showFeedback, error,
  inflight,         \* submit requests awaiting their response
  dwells,           \* pending 3-second timeouts, each holding its result
  \* AudioRecorder (mounted in the Active view of Interview)
  isRecording, audioBlob, answerText, recordingTime,
  mediaRecorderRef, chunksRef, timerRef,
  \* the browser: its recorder formats, and one entry per startRecording call
  browser, calls,
  \* observation
  alerts,           \* the alert() calls of the last handler, in order
  submitted,        \* the form contents at the last submission that sent a request
  lastOutcome,      \* how the last settled submission ended
  lastResponse,     \* the response the last settled submission received
  completeCount,    \* onComplete invocations since the session started
  completedAt,      \* the question and counter Interview held when onComplete ran
  lastStart         \* the response a session-creation request has just settled with

appVars == <<currentView, sessionData>>
setupVars == <<name, experience, setupLoading>>
reportVars == <<report, reportLoading>>
interviewVars ==
  <<currentQuestion, questionNumber, loading, feedback, showFeedback, error>>
netVars == <<startInflight, reportInflight, inflight, dwells>>
arVars ==
  <<isRecording, audioBlob, answerText, recordingTime,
    mediaRecorderRef, chunksRef, timerRef>>
obsVars ==
  <<submitted, lastOutcome, lastResponse, completeCount, completedAt, lastStart>>
vars ==
  <<appVars, setupVars, reportVars, interviewVars, netVars, arVars, browser,
    calls, alerts, obsVars>>

NullSession == [present |-> FALSE, session_id |-> "undefined", question |-> NoQuestion]
NoBlob == [present |-> FALSE, size |-> 0, type |-> ""]
NoSubmitted == [text |-> <<>>, blob |-> NoBlob]
NotCompleted == [question |-> NoQuestion, number |-> 0]
NoStart == [settled |-> FALSE, ok |-> FALSE, data |-> NullSession]
NoResponse ==
  [kind |-> "none", ok |-> FALSE, status |-> "", parseable |-> FALSE,
   detail |-> <<>>, err |-> <<>>, raw |-> <<>>,
   evaluation |-> NoEvaluation, complete |-> FALSE, next |-> NoQuestion]

\* ------------------------------------------------------------------ views
\* The view Interview renders: the chain of early returns.
InterviewViewMut ==
  IF loading THEN "loading"
  ELSE IF error # NoMessage THEN "error"
  ELSE "active"
InterviewView ==
  IF loading THEN "loading"
  ELSE IF error # NoMessage THEN "error"
  ELSE IF showFeedback /\ feedback # NoEvaluation THEN "feedback"
  ELSE "active"

InterviewMounted == currentView = "interview"
SetupMounted == currentView = "home"
ReportMounted == currentView = "report"
\* <AudioRecorder> is rendered only by the last return of Interview.
ARMounted == InterviewMounted /\ InterviewView = "active"

\* ------------------------------------------------- mounting and unmounting
\* useState() initial values; a component that is not mounted holds them.
SetupFresh == [name |-> <<>>, experience |-> "beginner", setupLoading |-> FALSE]
ReportFresh == [report |-> "none", reportLoading |-> TRUE]
ARFresh ==
  [isRecording |-> FALSE, audioBlob |-> NoBlob, answerText |-> <<>>,
   recordingTime |-> 0, mediaRecorderRef |-> 0, chunksRef |-> <<>>, timerRef |-> 0]

\* Interview's useState() values followed by its effect on sessionData.
InterviewFresh(sd) ==
  [currentQuestion |->
     IF sd.present /\ sd.question # NoQuestion THEN sd.question ELSE NoQuestion,
   questionNumber |-> 1, loading |-> FALSE, feedback |-> NoEvaluation,
   showFeedback |-> FALSE, error |-> NoMessage]

MountSetup ==
  /\ name' = SetupFresh.name
  /\ experience' = SetupFresh.experience
  /\ setupLoading' = SetupFresh.setupLoading
MountReport ==
  /\ report' = ReportFresh.report
  /\ reportLoading' = ReportFresh.reportLoading
MountInterview(sd) ==
  /\ currentQuestion' = InterviewFresh(sd).currentQuestion
  /\ questionNumber' = InterviewFresh(sd).questionNumber
  /\ loading' = InterviewFresh(sd).loading
  /\ feedback' = InterviewFresh(sd).feedback
  /\ showFeedback' = InterviewFresh(sd).showFeedback
  /\ error' = InterviewFresh(sd).error
MountAR ==
  /\ isRecording' = ARFresh.isRecording
  /\ audioBlob' = ARFresh.audioBlob
  /\ answerText' = ARFresh.answerText
  /\ recordingTime' = ARFresh.recordingTime
  /\ mediaRecorderRef' = ARFresh.mediaRecorderRef
  /\ chunksRef' = ARFresh.chunksRef
  /\ timerRef' = ARFresh.timerRef

\* setState of an unmounted instance does nothing: its callbacks are marked.
Stale(s) == [i \in DOMAIN s |-> [s[i] EXCEPT !.stale = TRUE]]
Orphaned(cs) == [i \in DOMAIN cs |-> [cs[i] EXCEPT !.mine = FALSE]]

\* InterviewReport's effect: fetchReport for sessionId = sessionData?.session_id
ReportRequestMut(sd) == [session_id |-> NullSession.session_id, stale |-> FALSE]
ReportRequest(sd) == [session_id |-> sd.session_id, stale |-> FALSE]

\* AudioRecorder follows the view Interview renders.
ARFollow ==
  IF ARMounted /\ ARMounted'
  THEN UNCHANGED <<arVars, calls>>
  ELSE MountAR /\ calls' = Orphaned(calls)

\* App re-renders with a new view and session: the component of the old view
\* unmounts, the component of the new view mounts and runs its effects.
\* si, ri, inf, dw are the pending callbacks as the calling handler leaves them.
Nav(newView, newSession, si, ri, inf, dw) ==
  /\ currentView' = newView
  /\ sessionData' = newSession
  /\ IF newView = currentView
     THEN /\ UNCHANGED <<setupVars, reportVars>>
          /\ UNCHANGED <<questionNumber, loading, feedback, showFeedback, error>>
          /\ currentQuestion' =
               IF /\ newView = "interview"
                  /\ newSession # sessionData
                  /\ newSession.present
                  /\ newSession.question # NoQuestion
               THEN newSession.question
               ELSE currentQuestion
          /\ startInflight' = si
          /\ reportInflight' = ri
          /\ inflight' = inf
          /\ dwells' = dw
          /\ ARFollow
     ELSE /\ MountSetup
          /\ MountReport
          /\ MountInterview(IF newView = "interview" THEN newSession ELSE NullSession)
          /\ startInflight' = Stale(si)
          /\ inflight' = Stale(inf)
          /\ dwells' = Stale(dw)
          /\ reportInflight' =
               IF newView = "report"
               THEN Append(Stale(ri), ReportRequest(newSession))
               ELSE Stale(ri)
          /\ MountAR
          /\ calls' = Orphaned(calls)

\* App.startInterview, App.showReport, App.goHome
startInterviewMut(data, si, ri, inf, dw) == Nav("interview", sessionData, si, ri, inf, dw)
startInterview(data, si, ri, inf, dw) == Nav("interview", data, si, ri, inf, dw)
showReport(si, ri, inf, dw) == Nav("report", sessionData, si, ri, inf, dw)
goHomeMut(si, ri, inf, dw) == Nav("home", sessionData, si, ri, inf, dw)
goHome(si, ri, inf, dw) == Nav("home", NullSession, si, ri, inf, dw)

\* ------------------------------------------------------- Session Shell
StartQuestions == {"q1"}
StartPayloads ==
  [present : {TRUE}, session_id : SessionIds,
   question : StartQuestions \cup {NoQuestion}]
StartResponses ==
  [ok : {FALSE}, data : {NullSession}] \cup [ok : {TRUE}, data : StartPayloads]

\* the start button's disabled attribute
StartEnabled == ~(setupLoading \/ Trim(name) = <<>>)

SetName(t) ==
  /\ SetupMounted
  /\ t # name
  /\ name' = t
  /\ alerts' = <<>>
  /\ lastStart' = NoStart
  /\ UNCHANGED <<appVars, experience, setupLoading, reportVars, interviewVars,
                 netVars, arVars, browser, calls>>
  /\ UNCHANGED <<submitted, lastOutcome, lastResponse, completeCount, completedAt>>

SetExperience(e) ==
  /\ SetupMounted
  /\ e # experience
  /\ experience' = e
  /\ alerts' = <<>>
  /\ lastStart' = NoStart
  /\ UNCHANGED <<appVars, name, setupLoading, reportVars, interviewVars,
                 netVars, arVars, browser, calls>>
  /\ UNCHANGED <<submitted, lastOutcome, lastResponse, completeCount, completedAt>>

\* InterviewSetup.handleStart up to its await
HandleStart ==
  /\ SetupMounted
  /\ StartEnabled
  /\ IF Trim(name) = <<>>
     THEN /\ alerts' = <<<<"Please enter your name">>>>
          /\ UNCHANGED <<setupLoading, startInflight>>
     ELSE /\ alerts' = <<>>
          /\ setupLoading' = TRUE
          /\ startInflight' =
               Append(startInflight,
                      [name |-> name, experience |-> experience, stale |-> FALSE])
  /\ lastStart' = NoStart
  /\ UNCHANGED <<appVars, name, experience, reportVars, interviewVars,
                 reportInflight, inflight, dwells, arVars, browser, calls>>
  /\ UNCHANGED <<submitted, lastOutcome, lastResponse, completeCount, completedAt>>

StartFailedAlert ==
  <<"Failed to start interview. Please check if the backend is running.">>

\* InterviewSetup.handleStart after its await: a failed fetch, a non-2xx
\* status and an unparseable body all reach the catch block.
SettleStart(i, resp) ==
  /\ i \in DOMAIN startInflight
  /\ lastStart' = [settled |-> TRUE, ok |-> resp.ok, data |-> resp.data]
  /\ IF resp.ok
     THEN /\ alerts' = <<>>
          /\ startInterview(resp.data, RemoveAt(startInflight, i),
                            reportInflight, inflight, dwells)
          /\ submitted' = NoSubmitted
          /\ lastOutcome' = "none"
          /\ lastResponse' = NoResponse
          /\ completeCount' = 0
          /\ completedAt' = NotCompleted
     ELSE /\ alerts' = <<StartFailedAlert>>
          /\ setupLoading' = IF startInflight[i].stale THEN setupLoading ELSE FALSE
          /\ startInflight' = RemoveAt(startInflight, i)
          /\ UNCHANGED <<appVars, name, experience, reportVars, interviewVars,
                         reportInflight, inflight, dwells, arVars, calls>>
          /\ UNCHANGED <<submitted, lastOutcome, lastResponse, completeCount,
                         completedAt>>
  /\ UNCHANGED browser

\* InterviewReport.fetchReport after its await
SettleReport(i, ok) ==
  /\ i \in DOMAIN reportInflight
  /\ reportInflight' = RemoveAt(reportInflight, i)
  /\ IF reportInflight[i].stale
     THEN UNCHANGED reportVars
     ELSE /\ report' = IF ok THEN "loaded" ELSE report
          /\ reportLoading' = FALSE
  /\ alerts' = <<>>
  /\ UNCHANGED <<appVars, setupVars, interviewVars, startInflight, inflight,
                 dwells, arVars, browser, calls, obsVars>>

\* the Home / Return Home / Back to Home buttons, each rendered by one view
HomeButtonShownMut ==
  \/ InterviewMounted /\ InterviewView \in {"active", "error", "feedback"}
  \/ ReportMounted /\ ~reportLoading /\ report # "none"
HomeButtonShown ==
  \/ InterviewMounted /\ InterviewView \in {"active", "error"}
  \/ ReportMounted /\ ~reportLoading /\ report # "none"

GoHome ==
  /\ HomeButtonShown
  /\ goHome(startInflight, reportInflight, inflight, dwells)
  /\ alerts' = <<>>
  /\ submitted' = NoSubmitted
  /\ lastOutcome' = "none"
  /\ lastResponse' = NoResponse
  /\ completedAt' = NotCompleted
  /\ lastStart' = NoStart
  /\ UNCHANGED <<browser, completeCount>>

\* ------------------------------------------------------- Interview Flow
\* What the backend can answer to a submit request.  detail, err and raw are
\* strings; an absent field and an empty one are both the empty string.
Details == {<<>>, <<"bad audio format">>, <<"Server error", " in db">>}
Errs == {<<>>, <<"quota exceeded">>}
RawBodies == {<<"Bad Gateway">>}
Statuses == {"500"}

NetworkFailures ==
  {[NoResponse EXCEPT !.kind = "network", !.raw = <<"Failed to fetch">>]}
ErrorResponses ==
  {[NoResponse EXCEPT !.kind = "http", !.status = st, !.parseable = TRUE,
                      !.detail = d, !.err = e] :
     st \in Statuses, d \in Details, e \in Errs}
  \cup
  {[NoResponse EXCEPT !.kind = "http", !.status = st, !.raw = r] :
     st \in Statuses, r \in RawBodies}
OkResponses(nexts) ==
  {[NoResponse EXCEPT !.kind = "http", !.ok = TRUE, !.status = "200",
                      !.parseable = TRUE, !.evaluation = ev, !.complete = c,
                      !.next = n] :
     ev \in Evaluations \cup {NoEvaluation}, c \in BOOLEAN,
     n \in nexts \cup {NoQuestion}}
  \cup
  {[NoResponse EXCEPT !.kind = "http", !.ok = TRUE, !.status = "200",
                      !.raw = <<"<html>">>]}
\* qn bounds the run: a next question is offered only below MaxQuestionNumber
SubmitResponses(qn) ==
  NetworkFailures \cup ErrorResponses
  \cup OkResponses(IF qn < MaxQuestionNumber THEN Questions ELSE {})

\* Body.json(): the body is consumed whether or not it parses.
ResponseJson(resp) == [parsed |-> resp.parseable, bodyUsed |-> TRUE]
\* Body.text(): rejects with a TypeError when the body was already consumed.
BodyUsedMessage == <<"body stream already read">>
ResponseText(resp, bodyUsed) ==
  IF bodyUsed THEN [rejected |-> TRUE, text |-> BodyUsedMessage]
  ELSE [rejected |-> FALSE, text |-> resp.raw]

DefaultSubmitError == <<"Failed to submit answer">>
\* errorData.detail || errorData.error || errorMessage
ErrorMessageFromMut(resp) == OrElse(resp.err, OrElse(resp.detail, DefaultSubmitError))
ErrorMessageFrom(resp) == OrElse(resp.detail, OrElse(resp.err, DefaultSubmitError))

\* `Server error (${response.status}): ${textError}`
ServerErrorMessage(status, text) == <<"Server error", " (", status, "): ">> \o text

\* The `if (!response.ok)` block: the alerts it raises and the message of the
\* Error that leaves it (its own throw, or the TypeError of response.text()).
NotOkBranch(resp) ==
  LET j == ResponseJson(resp) IN
  IF j.parsed
  THEN LET m == ErrorMessageFrom(resp) IN
       [alerts |-> <<<<"Error: ">> \o m>>, message |-> m]
  ELSE LET t == ResponseText(resp, j.bodyUsed) IN
       IF t.rejected
       THEN [alerts |-> <<>>, message |-> t.text]
       ELSE LET m == ServerErrorMessage(resp.status, t.text) IN
            [alerts |-> <<<<"Error: ">> \o m>>, message |-> m]

MissingEvaluation == <<"Invalid response format - missing evaluation">>
TryBlockMut(resp) ==
  IF resp.kind = "network"
  THEN [thrown |-> TRUE, alerts |-> <<>>, message |-> resp.raw]
  ELSE IF ~resp.ok
  THEN [thrown |-> TRUE, alerts |-> NotOkBranch(resp).alerts,
        message |-> NotOkBranch(resp).message]
  ELSE IF ~ResponseJson(resp).parsed
  THEN [thrown |-> TRUE, alerts |-> <<>>, message |-> <<"Unexpected token">>]
  ELSE [thrown |-> FALSE, alerts |-> <<>>, message |-> <<>>]

\* The try block after the fetch: whether it throws, with what message, and
\* the alerts raised before the throw.
TryBlock(resp) ==
  IF resp.kind = "network"
  THEN [thrown |-> TRUE, alerts |-> <<>>, message |-> resp.raw]
  ELSE IF ~resp.ok
  THEN [thrown |-> TRUE, alerts |-> NotOkBranch(resp).alerts,
        message |-> NotOkBranch(resp).message]
  ELSE IF ~ResponseJson(resp).parsed
  THEN [thrown |-> TRUE, alerts |-> <<>>, message |-> <<"Unexpected token">>]
  ELSE IF resp.evaluation = NoEvaluation
  THEN [thrown |-> TRUE, alerts |-> <<>>, message |-> MissingEvaluation]
  ELSE [thrown |-> FALSE, alerts |-> <<>>, message |-> <<>>]

\* the catch block
CatchAlert ==
  <<"Failed to submit answer. Please check your connection and try again.">>
CatchError(message) == OrElse(message, <<"Network error occurred">>)
CatchAlerts(message) ==
  IF ~Includes(message, "Server error") THEN <<CatchAlert>> ELSE <<>>

\* FormData as submitAnswer appends it: a sequence of <<name, value>>
FormDataMut(sd, cq, text, file) ==
  << <<"session_id", sd.session_id>>, <<"question_id", cq>> >>
  \o (IF text # <<>> THEN << <<"answer_text", text>> >> ELSE <<>>)
  \o (IF file.present THEN << <<"audio_file", file>> >> ELSE <<>>)
FormData(sd, cq, text, file) ==
  << <<"session_id", sd.session_id>>, <<"question_id", cq>>,
     <<"answer_text", OrElse(text, <<>>)>> >>
  \o (IF file.present THEN << <<"audio_file", file>> >> ELSE <<>>)

\* The Try Again button of the error view: setError(null)
TryAgain ==
  /\ InterviewMounted
  /\ InterviewView = "error"
  /\ error' = NoMessage
  /\ UNCHANGED <<currentQuestion, questionNumber, loading, feedback, showFeedback>>
  /\ UNCHANGED <<appVars, setupVars, reportVars, netVars, browser>>
  /\ ARFollow
  /\ alerts' = <<>>
  /\ lastResponse' = NoResponse
  /\ submitted' = NoSubmitted
  /\ lastOutcome' = "none"
  /\ UNCHANGED <<completeCount, completedAt, lastStart>>

\* Which branch the timeout callback takes
DwellOutcomeMut(d) ==
  IF d.next # NoQuestion THEN "next"
  ELSE IF d.complete THEN "complete"
  ELSE "error"
DwellOutcome(d) ==
  IF d.complete THEN "complete"
  ELSE IF d.next # NoQuestion THEN "next"
  ELSE "error"

\* the finally block: setLoading(false), on every path through try and catch
FinallyLoadingMut(stale, old) == old
FinallyLoading(stale, old) == IF stale THEN old ELSE FALSE

\* submitAnswer after `await fetch`, to the end of its finally block
SettleSubmit(i, resp) ==
  /\ i \in DOMAIN inflight
  /\ LET req == inflight[i]
         t == TryBlock(resp)
     IN /\ inflight' = RemoveAt(inflight, i)
        /\ IF t.thrown
           THEN /\ alerts' = t.alerts \o CatchAlerts(t.message)
                /\ error' = IF req.stale THEN error ELSE CatchError(t.message)
                /\ UNCHANGED <<feedback, showFeedback, dwells>>
           ELSE /\ alerts' = <<>>
                /\ feedback' = IF req.stale THEN feedback ELSE resp.evaluation
                /\ showFeedback' = IF req.stale THEN showFeedback ELSE TRUE
                /\ dwells' =
                     Append(dwells, [complete |-> resp.complete, next |-> resp.next,
                                     stale |-> req.stale])
                /\ UNCHANGED error
        /\ loading' = FinallyLoading(req.stale, loading)
        /\ lastOutcome' = IF t.thrown THEN "fail" ELSE "ok"
        /\ lastResponse' = resp
  /\ UNCHANGED <<currentQuestion, questionNumber>>
  /\ UNCHANGED <<appVars, setupVars, reportVars, startInflight, reportInflight,
                 browser, submitted, completeCount, completedAt, lastStart>>
  /\ ARFollow

UnexpectedResponse == <<"Unexpected response from server">>

\* the setTimeout callback of submitAnswer
DwellFire(i) ==
  /\ i \in DOMAIN dwells
  /\ LET d == dwells[i]
         rest == RemoveAt(dwells, i)
     IN CASE DwellOutcome(d) = "complete" ->
               /\ showReport(startInflight, reportInflight, inflight, rest)
               /\ completeCount' = completeCount + 1
               /\ completedAt' = [question |-> currentQuestion, number |-> questionNumber]
          [] DwellOutcome(d) = "next" ->
               /\ dwells' = rest
               /\ IF d.stale
                  THEN UNCHANGED interviewVars
                  ELSE /\ currentQuestion' = d.next
                       /\ questionNumber' = questionNumber + 1
                       /\ feedback' = NoEvaluation
                       /\ showFeedback' = FALSE
                       /\ UNCHANGED <<loading, error>>
               /\ UNCHANGED <<appVars, setupVars, reportVars, startInflight,
                              reportInflight, inflight>>
               /\ ARFollow
               /\ UNCHANGED <<completeCount, completedAt>>
          [] OTHER ->
               /\ dwells' = rest
               /\ error' =
                    IF d.stale THEN error ELSE UnexpectedResponse
               /\ UNCHANGED <<currentQuestion, questionNumber, loading, feedback,
                              showFeedback>>
               /\ UNCHANGED <<appVars, setupVars, reportVars, startInflight,
                              reportInflight, inflight>>
               /\ ARFollow
               /\ UNCHANGED <<completeCount, completedAt>>
  /\ alerts' = <<>>
  /\ lastResponse' = NoResponse
  /\ submitted' = NoSubmitted
  /\ lastOutcome' = "none"
  /\ UNCHANGED <<browser, lastStart>>

\* ------------------------------------------------------- Answer Capture
Webm == "audio/webm;codecs=opus"
Wav == "audio/wav"
\* a browser: the types MediaRecorder.isTypeSupported accepts, and the
\* mimeType its recorder reports when none was asked for
Browsers ==
  {[supported |-> {Webm}, default |-> Webm],
   [supported |-> {}, default |-> ""]}

\* options.mimeType after the two isTypeSupported checks
OptionsMimeType(b) ==
  IF Webm \in b.supported THEN Webm
  ELSE IF Wav \in b.supported THEN Wav
  ELSE ""
\* mediaRecorder.mimeType
RecorderMimeType(b) ==
  IF OptionsMimeType(b) # "" THEN OptionsMimeType(b) ELSE b.default
\* mimeType.includes('webm')
IncludesWebm(type) == type \in {Webm, "audio/webm"}

\* ondataavailable keeps a chunk only when event.data.size > 0
KeepChunkMut(size) == TRUE
KeepChunk(size) == size > 0
PushChunkMut(chunks, size) == Append(chunks, size)
PushChunk(chunks, size) == IF KeepChunk(size) THEN Append(chunks, size) ELSE chunks

\* new Blob(chunksRef.current, { type: mediaRecorder.mimeType || 'audio/wav' })
NewBlob(chunks, b) ==
  [present |-> TRUE, size |-> SumSeq(chunks),
   type |-> IF RecorderMimeType(b) # "" THEN RecorderMimeType(b) ELSE Wav]

\* new File([audioBlob], `answer.${extension}`, { type: mimeType })
NoFile == [present |-> FALSE, name |-> "", size |-> 0, type |-> ""]
NewFile(blob) ==
  LET mimeType == IF blob.type # "" THEN blob.type ELSE Wav
  IN [present |-> TRUE,
      name |-> IF IncludesWebm(mimeType) THEN "answer.webm" ELSE "answer.wav",
      size |-> blob.size, type |-> mimeType]

\* handleSubmit's validation
HasText(text) == text # <<>> /\ Len(Trim(text)) > 0
HasAudio(blob) == blob.present /\ blob.size > 0
\* the Submit button's disabled attribute, with disabled = loading
SubmitDisabled == loading \/ (Trim(answerText) = <<>> /\ ~audioBlob.present)

MicFailures == {"NotAllowedError", "NotFoundError", "AbortError"}
MicOutcomes == MicFailures \cup {"constructorThrows", "startThrows", "granted"}
\* the catch block of startRecording
MicAlert(errorName) ==
  <<"Failed to access microphone. ">> \o
  (IF errorName = "NotAllowedError"
   THEN <<"Please allow microphone access and try again.">>
   ELSE IF errorName = "NotFoundError"
   THEN <<"No microphone found. Please check your device.">>
   ELSE <<"Please check permissions and try again.">>)

arIdle == UNCHANGED <<appVars, setupVars, reportVars, interviewVars, netVars,
                      browser, obsVars>>

\* the textarea's onChange
SetAnswerText(t) ==
  /\ ARMounted
  /\ ~loading
  /\ t # answerText
  /\ answerText' = t
  /\ alerts' = <<>>
  /\ UNCHANGED <<isRecording, audioBlob, recordingTime, mediaRecorderRef,
                 chunksRef, timerRef, calls>>
  /\ arIdle

\* the Start Recording button, rendered when !isRecording && !audioBlob
StartShown == ARMounted /\ ~isRecording /\ ~audioBlob.present /\ ~loading

\* startRecording up to `await getUserMedia`; budget bounds the calls of a run
StartRecordingWithin(budget) ==
  /\ StartShown
  /\ Len(calls) < budget
  /\ calls' = Append(calls, [phase |-> "pending", live |-> FALSE,
                             timer |-> FALSE, mine |-> TRUE])
  /\ alerts' = <<>>
  /\ UNCHANGED arVars
  /\ arIdle

StartRecording == StartRecordingWithin(MaxRec)

\* startRecording after `await getUserMedia`, for call k
MicSettle(k, outcome) ==
  /\ k \in DOMAIN calls
  /\ calls[k].phase = "pending"
  /\ CASE outcome \in MicFailures ->
            /\ calls' = [calls EXCEPT ![k].phase = "denied"]
            /\ alerts' = <<MicAlert(outcome)>>
            /\ UNCHANGED arVars
       [] outcome = "constructorThrows" ->
            /\ calls' = [calls EXCEPT ![k].phase = "failed", ![k].live = TRUE]
            /\ alerts' = <<MicAlert(outcome)>>
            /\ UNCHANGED arVars
       [] outcome = "startThrows" ->
            /\ calls' = [calls EXCEPT ![k].phase = "failed", ![k].live = TRUE]
            /\ alerts' = <<MicAlert(outcome)>>
            /\ mediaRecorderRef' = IF calls[k].mine THEN k ELSE mediaRecorderRef
            /\ chunksRef' = IF calls[k].mine THEN <<>> ELSE chunksRef
            /\ UNCHANGED <<isRecording, audioBlob, answerText, recordingTime, timerRef>>
       [] OTHER ->
            /\ calls' = [calls EXCEPT ![k].phase = "recording", ![k].live = TRUE,
                                      ![k].timer = TRUE]
            /\ alerts' = <<>>
            /\ mediaRecorderRef' = IF calls[k].mine THEN k ELSE mediaRecorderRef
            /\ chunksRef' = IF calls[k].mine THEN <<>> ELSE chunksRef
            /\ isRecording' = IF calls[k].mine THEN TRUE ELSE isRecording
            /\ timerRef' = IF calls[k].mine THEN k ELSE timerRef
            /\ UNCHANGED <<audioBlob, answerText, recordingTime>>
  /\ arIdle

\* mediaRecorder.ondataavailable of call k during recording (timeslice 1000)
DataAvailable(k, size) ==
  /\ k \in DOMAIN calls
  /\ calls[k].phase = "recording"
  /\ calls[k].mine
  /\ Len(chunksRef) < MaxChunks
  /\ chunksRef' = PushChunk(chunksRef, size)
  /\ alerts' = <<>>
  /\ UNCHANGED <<isRecording, audioBlob, answerText, recordingTime,
                 mediaRecorderRef, timerRef, calls>>
  /\ arIdle

\* the Stop Recording button: stopRecording
StopRecording ==
  /\ ARMounted
  /\ isRecording
  /\ IF mediaRecorderRef # 0 /\ calls[mediaRecorderRef].phase = "recording"
     THEN /\ isRecording' = FALSE
          /\ calls' =
               [k \in DOMAIN calls |->
                  [calls[k] EXCEPT
                     !.phase = IF k = mediaRecorderRef THEN "stopping" ELSE @,
                     !.timer = IF k = timerRef THEN FALSE ELSE @]]
          /\ recordingTime' = IF timerRef # 0 THEN 0 ELSE recordingTime
     ELSE UNCHANGED <<isRecording, calls, recordingTime>>
  /\ alerts' = <<>>
  /\ UNCHANGED <<audioBlob, answerText, mediaRecorderRef, chunksRef, timerRef>>
  /\ arIdle

NoAudioAlert == <<"No audio data was recorded. Please try again.">>

\* The recorder of call k has been inactivated (stop(), or an error): it
\* delivers the data gathered since the last chunk, then fires onstop.
RecorderStop(k, size, orphanAlerts) ==
  /\ k \in DOMAIN calls
  /\ calls[k].phase = "stopping"
  /\ calls' = [calls EXCEPT ![k].phase = "inactive", ![k].live = FALSE]
  /\ IF calls[k].mine
     THEN LET chunks == IF Len(chunksRef) < MaxChunks
                        THEN PushChunk(chunksRef, size) ELSE chunksRef
          IN /\ chunksRef' = chunks
             /\ orphanAlerts = <<>>
             /\ IF Len(chunks) > 0
                THEN audioBlob' = NewBlob(chunks, browser) /\ alerts' = <<>>
                ELSE audioBlob' = audioBlob /\ alerts' = <<NoAudioAlert>>
     ELSE \* chunksRef of an unmounted instance is not followed
          /\ size = 0
          /\ alerts' = orphanAlerts
          /\ UNCHANGED <<chunksRef, audioBlob>>
  /\ UNCHANGED <<isRecording, answerText, recordingTime, mediaRecorderRef, timerRef>>
  /\ arIdle

\* mediaRecorder.onerror of call k; the recorder is inactivated by the browser
RecorderError(k) ==
  /\ k \in DOMAIN calls
  /\ calls[k].phase = "recording"
  /\ calls' = [calls EXCEPT ![k].phase = "stopping"]
  /\ alerts' = <<<<"Recording error occurred. Please try again.">>>>
  /\ isRecording' = IF calls[k].mine THEN FALSE ELSE isRecording
  /\ UNCHANGED <<audioBlob, answerText, recordingTime, mediaRecorderRef,
                 chunksRef, timerRef>>
  /\ arIdle

\* the setInterval callback of call k: setRecordingTime(prev => prev + 1)
Tick(k) ==
  /\ k \in DOMAIN calls
  /\ calls[k].timer
  /\ calls[k].mine
  /\ recordingTime < MaxTime
  /\ recordingTime' = recordingTime + 1
  /\ alerts' = <<>>
  /\ UNCHANGED <<isRecording, audioBlob, answerText, mediaRecorderRef,
                 chunksRef, timerRef, calls>>
  /\ arIdle

\* the Delete Recording button: clearRecording
ClearRecording ==
  /\ ARMounted
  /\ audioBlob.present
  /\ audioBlob' = NoBlob
  /\ alerts' = <<>>
  /\ UNCHANGED <<isRecording, answerText, recordingTime, mediaRecorderRef,
                 chunksRef, timerRef, calls>>
  /\ arIdle

EmptyAnswerAlert == <<"Please provide an answer by typing text or recording audio.">>
NoQuestionAlert == <<"No question available to answer">>

\* The Submit Answer button: handleSubmit, and inside it submitAnswer up to
\* `await fetch`.  When submitAnswer returns at once (no current question)
\* handleSubmit goes on to clear the form.
HandleSubmit ==
  /\ ARMounted
  /\ ~SubmitDisabled
  /\ LET hasText == HasText(answerText)
         hasAudio == HasAudio(audioBlob)
         audioFile == IF hasAudio THEN NewFile(audioBlob) ELSE NoFile
         text == OrElse(Trim(answerText), <<>>)
     IN IF ~hasText /\ ~hasAudio
        THEN /\ alerts' = <<EmptyAnswerAlert>>
             /\ UNCHANGED <<interviewVars, inflight, arVars, calls, submitted>>
        ELSE IF currentQuestion = NoQuestion
        THEN /\ alerts' = <<NoQuestionAlert>>
             /\ answerText' = <<>>
             /\ audioBlob' = NoBlob
             /\ UNCHANGED <<isRecording, recordingTime, mediaRecorderRef,
                            chunksRef, timerRef, calls>>
             /\ UNCHANGED <<interviewVars, inflight, submitted>>
        ELSE /\ alerts' = <<>>
             /\ loading' = TRUE
             /\ error' = NoMessage
             /\ UNCHANGED <<currentQuestion, questionNumber, feedback, showFeedback>>
             /\ inflight' =
                  Append(inflight,
                         [form |-> FormData(sessionData, currentQuestion, text, audioFile),
                          stale |-> FALSE])
             /\ submitted' = [text |-> answerText, blob |-> audioBlob]
             /\ MountAR
             /\ calls' = Orphaned(calls)
  /\ UNCHANGED <<appVars, setupVars, reportVars, startInflight, reportInflight,
                 dwells, browser, lastOutcome, lastResponse, completeCount,
                 completedAt, lastStart>>

\* ------------------------------------------------------- specification
Init ==
  /\ currentView = "home"
  /\ sessionData = NullSession
  /\ name = SetupFresh.name
  /\ experience = SetupFresh.experience
  /\ setupLoading = SetupFresh.setupLoading
  /\ report = ReportFresh.report
  /\ reportLoading = ReportFresh.reportLoading
  /\ currentQuestion = InterviewFresh(NullSession).currentQuestion
  /\ questionNumber = InterviewFresh(NullSession).questionNumber
  /\ loading = InterviewFresh(NullSession).loading
  /\ feedback = InterviewFresh(NullSession).feedback
  /\ showFeedback = InterviewFresh(NullSession).showFeedback
  /\ error = InterviewFresh(NullSession).error
  /\ startInflight = <<>> /\ reportInflight = <<>>
  /\ inflight = <<>> /\ dwells = <<>>
  /\ isRecording = ARFresh.isRecording
  /\ audioBlob = ARFresh.audioBlob
  /\ answerText = ARFresh.answerText
  /\ recordingTime = ARFresh.recordingTime
  /\ mediaRecorderRef = ARFresh.mediaRecorderRef
  /\ chunksRef = ARFresh.chunksRef
  /\ timerRef = ARFresh.timerRef
  /\ browser \in Browsers
  /\ calls = <<>>
  /\ alerts = <<>>
  /\ submitted = NoSubmitted
  /\ lastOutcome = "none"
  /\ lastResponse = NoResponse
  /\ completeCount = 0
  /\ completedAt = NotCompleted
  /\ lastStart = NoStart

\* every step but the Start Recording button
Others ==
  \/ \E t \in Texts : SetName(t)
  \/ \E e \in Experiences : SetExperience(e)
  \/ HandleStart
  \/ \E i \in DOMAIN startInflight, resp \in StartResponses : SettleStart(i, resp)
  \/ \E i \in DOMAIN reportInflight, ok \in BOOLEAN : SettleReport(i, ok)
  \/ GoHome
  \/ TryAgain
  \/ HandleSubmit
  \/ \E i \in DOMAIN inflight, resp \in SubmitResponses(questionNumber) :
       SettleSubmit(i, resp)
  \/ \E i \in DOMAIN dwells : DwellFire(i)
  \/ \E t \in Texts : SetAnswerText(t)
  \/ \E k \in DOMAIN calls, o \in MicOutcomes : MicSettle(k, o)
  \/ \E k \in DOMAIN calls, size \in ChunkSizes : DataAvailable(k, size)
  \/ StopRecording
  \/ \E k \in DOMAIN calls, size \in ChunkSizes, a \in {<<>>, <<NoAudioAlert>>} :
       RecorderStop(k, size, a)
  \/ \E k \in DOMAIN calls : RecorderError(k)
  \/ \E k \in DOMAIN calls : Tick(k)
  \/ ClearRecording

Next == StartRecording \/ Others

\* The same system with room for one more startRecording call, so that two
\* calls of one run can overlap.
NextRace == StartRecordingWithin(MaxRec + 1) \/ Others

Spec == Init /\ [][Next]_vars
SpecRace == Init /\ [][NextRace]_vars

\* Every fetch settles: a pending submit request is eventually resolved or
\* rejected by the browser.
SettleSome ==
  \E i \in DOMAIN inflight, resp \in SubmitResponses(questionNumber) :
    SettleSubmit(i, resp)
SpecLive == Init /\ [][Next]_vars /\ WF_vars(SettleSome)

\* ================================================================ claims

\* C1 (as claimed): when the answer form is shown again after a submission,
\* it is empty if the submission succeeded, and holds the text and the audio
\* object of the moment of submitting if the submission failed.
C1_FormAfterSubmission ==
  [][(/\ InterviewMounted /\ InterviewMounted'
      /\ ~ARMounted /\ ARMounted'
      /\ lastOutcome # "none")
     => IF lastOutcome = "ok"
        THEN answerText' = <<>> /\ audioBlob' = NoBlob
        ELSE answerText' = submitted.text /\ audioBlob' = submitted.blob]_vars

\* C2 (as claimed): from every Errored state, Try Again (the step of a mounted
\* Interview that clears the error) shows the answer form with the same
\* current question; neither the feedback nor the loading view is shown.
C2_TryAgainReturnsToActive ==
  [][(/\ InterviewMounted /\ InterviewMounted'
      /\ InterviewView = "error"
      /\ error' = NoMessage)
     => /\ InterviewView' = "active"
        /\ ARMounted'
        /\ currentQuestion' = currentQuestion]_vars

\* C3: when a dwell timer fires (the only step that removes a pending timer),
\* the result it holds alone selects exactly one of: (1) interview_complete:
\* onComplete runs, for the first and only time in the session, with the
\* question and counter as they were; (2) else next_question: it becomes the
\* current question, the counter grows by one, feedback is cleared; (3) else:
\* the error is set, question and counter stay.
C3_Completed(d) ==
  /\ completeCount' = completeCount + 1
  /\ completeCount' = 1
  /\ currentView' = "report"
  /\ completedAt' = [question |-> currentQuestion, number |-> questionNumber]
C3_Advanced(d) ==
  /\ InterviewMounted'
  /\ currentQuestion' = d.next
  /\ questionNumber' = questionNumber + 1
  /\ feedback' = NoEvaluation /\ ~showFeedback'
  /\ error' = NoMessage
  /\ completeCount' = completeCount
C3_Errored(d) ==
  /\ InterviewMounted'
  /\ error' = UnexpectedResponse
  /\ currentQuestion' = currentQuestion
  /\ questionNumber' = questionNumber
  /\ completeCount' = completeCount
C3_DwellOutcomes ==
  [][Len(dwells') < Len(dwells)
     => \E i \in DOMAIN dwells :
          LET d == dwells[i] IN
          /\ Len(dwells') = Len(dwells) - 1
          /\ IF d.complete THEN C3_Completed(d)
             ELSE IF d.next # NoQuestion THEN C3_Advanced(d)
             ELSE C3_Errored(d)
          /\ (IF C3_Completed(d) THEN 1 ELSE 0)
             + (IF C3_Advanced(d) THEN 1 ELSE 0)
             + (IF C3_Errored(d) THEN 1 ELSE 0) = 1]_vars
\* a session that advanced to question 2 and then completed
C3_Witness ==
  /\ currentView = "report"
  /\ completeCount = 1
  /\ completedAt.number = 2

\* C4 (as claimed): the mounted Answer Capture never has two recorders
\* capturing at once (each with its own stream and elapsed timer), and no
\* startRecording call of it is awaiting the microphone while a completed
\* recording is held.
Capturing(k) == calls[k].mine /\ calls[k].phase = "recording"
C4_SingleRecording ==
  /\ \A j, k \in DOMAIN calls : j # k => ~(Capturing(j) /\ Capturing(k))
  /\ \A k \in DOMAIN calls :
       (calls[k].mine /\ calls[k].phase = "pending") => ~audioBlob.present

\* C5 (as claimed): a live microphone stream belongs to a recorder of the
\* mounted Answer Capture that is capturing and shown as recording, or whose
\* stop has been requested and whose onstop (which releases it) is due.
C5_StreamReleased ==
  \A k \in DOMAIN calls :
    calls[k].live =>
      /\ calls[k].mine
      /\ \/ calls[k].phase = "recording" /\ isRecording
         \/ calls[k].phase = "stopping"

\* C6 (as claimed): an elapsed-time interval is scheduled only for the
\* recorder of the mounted Answer Capture that is capturing and shown as
\* recording, and at most one interval is scheduled.
C6_IntervalCancelled ==
  /\ \A k \in DOMAIN calls :
       calls[k].timer => calls[k].mine /\ calls[k].phase = "recording" /\ isRecording
  /\ Cardinality({k \in DOMAIN calls : calls[k].timer}) <= 1

\* C7 (as claimed): a failed submission is never announced by both the alert
\* of the non-2xx branch and the alert of the catch block.
IsBranchAlert(a) == a # <<>> /\ Head(a) = "Error: "
C7_SingleAlert ==
  ~(\E i, j \in DOMAIN alerts : IsBranchAlert(alerts[i]) /\ alerts[j] = CatchAlert)

\* C8: the Submit button is enabled exactly for the pairs handleSubmit
\* accepts (trimmed text non-empty, or an audio object, which is then
\* non-empty); handleSubmit never reaches its rejection; and every request in
\* flight was sent for a pair with non-empty trimmed text or an audio object.
Acceptable(text, blob) == Trim(text) # <<>> \/ blob.present
C8_SubmitGuard ==
  /\ ARMounted =>
       /\ (HasText(answerText) \/ HasAudio(audioBlob))
            = Acceptable(answerText, audioBlob)
       /\ (~SubmitDisabled) = (HasText(answerText) \/ HasAudio(audioBlob))
  /\ alerts # <<EmptyAnswerAlert>>
  /\ inflight # <<>> => Acceptable(submitted.text, submitted.blob)
\* a request sent for whitespace text and a recording, i.e. accepted for its
\* audio alone
C8_Witness ==
  /\ inflight # <<>>
  /\ submitted.text = <<" ">>
  /\ submitted.blob.present

\* C9: after a non-2xx response with a JSON body, the error view shows
\* exactly the body's detail when it is non-empty, and exactly its error
\* field when detail is empty or absent and error is non-empty.
C9_ExactMessage ==
  (/\ InterviewMounted
   /\ lastResponse.kind = "http" /\ ~lastResponse.ok /\ lastResponse.parseable)
  => /\ lastResponse.detail # <<>>
          => InterviewView = "error" /\ error = lastResponse.detail
     /\ (lastResponse.detail = <<>> /\ lastResponse.err # <<>>)
          => InterviewView = "error" /\ error = lastResponse.err
\* a response carrying both fields: detail is the message shown
C9_Witness ==
  /\ InterviewView = "error"
  /\ lastResponse.detail = <<"bad audio format">>
  /\ lastResponse.err # <<>>
  /\ error = <<"bad audio format">>

\* C10: every submit request in flight carries session_id, question_id and
\* answer_text once each; answer_text is the trimmed typed text (the empty
\* string for an audio-only answer); audio_file is carried exactly when an
\* audio object was recorded, and then once.
Fields(form, field) == {i \in DOMAIN form : form[i][1] = field}
C10_RequestFields ==
  \A r \in DOMAIN inflight :
    LET form == inflight[r].form IN
    /\ Cardinality(Fields(form, "session_id")) = 1
    /\ Cardinality(Fields(form, "question_id")) = 1
    /\ Cardinality(Fields(form, "answer_text")) = 1
    /\ \A i \in Fields(form, "session_id") : form[i][2] = sessionData.session_id
    /\ \A i \in Fields(form, "question_id") : form[i][2] = currentQuestion
    /\ \A i \in Fields(form, "answer_text") : form[i][2] = Trim(submitted.text)
    /\ Cardinality(Fields(form, "audio_file")) = IF submitted.blob.present THEN 1 ELSE 0
    /\ \A i \in Fields(form, "audio_file") : form[i][2].size = submitted.blob.size
\* an audio-only request: answer_text is the empty string, audio_file present
C10_Witness ==
  \E r \in DOMAIN inflight :
    LET form == inflight[r].form IN
    /\ \E i \in Fields(form, "answer_text") : form[i][2] = <<>>
    /\ Fields(form, "audio_file") # {}
    /\ submitted.text = <<" ">>

\* C11: when onstop runs for a recorder of the mounted Answer Capture (its
\* call goes from stopping to inactive): with zero captured chunks the audio
\* object is left as it was and the 'no audio recorded' warning is the alert
\* raised; with at least one chunk an audio object of positive size is set
\* and no alert is raised.  And every audio object held has positive size.
C11_OnStop(k) ==
  /\ k \in DOMAIN calls'
  /\ calls[k].mine
  /\ calls[k].phase = "stopping"
  /\ calls'[k].phase = "inactive"
C11_StopYieldsAudio ==
  /\ [](audioBlob.present => audioBlob.size > 0)
  /\ [][\A k \in DOMAIN calls :
         C11_OnStop(k) =>
           IF Len(chunksRef') = 0
           THEN audioBlob' = audioBlob /\ alerts' = <<NoAudioAlert>>
           ELSE /\ audioBlob'.present
                /\ audioBlob'.size = SumSeq(chunksRef')
                /\ audioBlob'.size > 0
                /\ alerts' = <<>>]_vars
\* a recording stopped with one chunk kept: the audio object is held
C11_Witness ==
  /\ ARMounted
  /\ audioBlob.present
  /\ chunksRef # <<>>
  /\ \E k \in DOMAIN calls : calls[k].mine /\ calls[k].phase = "inactive"

\* C12: when a session-creation request settles (the only step that takes a
\* request off startInflight) it does so on the home view, and: on success no
\* alert is raised, the view becomes interview, the session held is exactly
\* the returned payload and the question counter is 1; on failure the alert
\* is raised, the view stays home, the session stays null and the start
\* button is as C12_ButtonAfterFailure says.
C12_Started ==
  /\ alerts' = <<>>
  /\ currentView' = "interview"
  /\ sessionData' = lastStart'.data
  /\ questionNumber' = 1
C12_Failed(button) ==
  /\ alerts' = <<StartFailedAlert>>
  /\ currentView' = "home"
  /\ sessionData' = NullSession
  /\ button
C12_Settles(button) ==
  Len(startInflight') < Len(startInflight)
  => /\ currentView = "home" /\ sessionData = NullSession
     /\ lastStart'.settled
     /\ IF lastStart'.ok THEN C12_Started ELSE C12_Failed(button)
\* C12 (as claimed): after a failure the start button is enabled again.
C12_StartAsClaimed == [][C12_Settles(StartEnabled')]_vars
\* C12 (amended): after a failure the loading flag is cleared, and the start
\* button is enabled again exactly when the name field is still non-blank.
C12_StartSettles ==
  [][C12_Settles(~setupLoading' /\ StartEnabled' = (Trim(name') # <<>>))]_vars
\* a failed start after which the button is enabled again
C12_Witness ==
  /\ currentView = "home"
  /\ lastStart.settled /\ ~lastStart.ok
  /\ alerts = <<StartFailedAlert>>
  /\ StartEnabled

\* C13: a report request is issued only by the step in which the interview
\* signals completion (view interview -> report), one request for one
\* completion, addressed to the id of the session held; while the report view
\* is shown that request is the only one, in flight exactly while the view is
\* loading, and none is in flight outside the report view; and once the view
\* is in the 'failed to load' state it stays there with no request in flight.
ReportFailedView == ReportMounted /\ ~reportLoading /\ report = "none"
C13_Issued ==
  Len(reportInflight') > Len(reportInflight)
  => /\ currentView = "interview" /\ currentView' = "report"
     /\ completeCount' = completeCount + 1
     /\ reportInflight = <<>>
     /\ reportInflight' = <<[session_id |-> sessionData.session_id, stale |-> FALSE]>>
     /\ sessionData' = sessionData /\ sessionData.present
C13_OneRequest ==
  IF ReportMounted
  THEN /\ completeCount = 1
       /\ Len(reportInflight) = IF reportLoading THEN 1 ELSE 0
       /\ \A i \in DOMAIN reportInflight :
            /\ reportInflight[i].session_id = sessionData.session_id
            /\ ~reportInflight[i].stale
  ELSE reportInflight = <<>>
C13_ReportFetchedOnce ==
  /\ []C13_OneRequest
  /\ [][C13_Issued]_vars
  /\ [][ReportFailedView => ReportFailedView' /\ reportInflight' = <<>>]_vars
\* the report request of a completed interview has failed
C13_Witness ==
  /\ ReportFailedView
  /\ completeCount = 1
  /\ reportInflight = <<>>

\* C14 (as claimed): a submission attempted with no current question (the
\* step that raises the 'no question' alert) issues no request and leaves
\* loading, error, feedback, the question counter, the answer text and the
\* audio object as they were.
C14_NoQuestionNoOp ==
  [][alerts' = <<NoQuestionAlert>>
     => /\ currentQuestion = NoQuestion
        /\ inflight' = inflight
        /\ UNCHANGED <<loading, error, feedback, showFeedback, questionNumber>>
        /\ answerText' = answerText
        /\ audioBlob' = audioBlob]_vars

\* C15: the home view is entered from another view only through a Home
\* button (Active, Errored, or the loaded report) and only with the session
\* set to null; on the home view the session is null and no submit request,
\* dwell timer or report request of an earlier session is pending; and every
\* session started from the home view begins with counter 1, no feedback, no
\* error, not loading, empty answer text, no audio object and no recording,
\* its question being the one of the new payload.
C15_AtHome ==
  currentView = "home"
  => /\ sessionData = NullSession
     /\ inflight = <<>> /\ dwells = <<>> /\ reportInflight = <<>>
C15_Leaves ==
  (currentView # "home" /\ currentView' = "home")
  => /\ HomeButtonShown
     /\ sessionData' = NullSession
C15_Begins ==
  (currentView = "home" /\ currentView' = "interview")
  => /\ questionNumber' = 1
     /\ feedback' = NoEvaluation /\ ~showFeedback'
     /\ error' = NoMessage /\ ~loading'
     /\ answerText' = <<>> /\ audioBlob' = NoBlob /\ ~isRecording'
     /\ currentQuestion' = sessionData'.question
     /\ inflight' = <<>> /\ dwells' = <<>>
     /\ \A k \in DOMAIN calls' : ~calls'[k].mine
C15_HomeDiscards ==
  /\ []C15_AtHome
  /\ [][C15_Leaves]_vars
  /\ [][C15_Begins]_vars
\* back on the home view from the report of a completed session
C15_Witness ==
  /\ currentView = "home"
  /\ sessionData = NullSession
  /\ completeCount = 1
  /\ lastStart = NoStart
  /\ alerts = <<>>

\* C16: when a submit request settles with a 2xx JSON response that has no
\* evaluation, the error view is shown with the 'missing evaluation' message,
\* loading is over, feedback stays absent and not shown, no dwell timer is
\* pending, and the current question and the counter are as before, whether
\* or not the response carries next_question or interview_complete.
C16_MissingEvaluation ==
  [][(/\ Len(inflight') < Len(inflight)
      /\ lastResponse'.kind = "http" /\ lastResponse'.ok
      /\ lastResponse'.parseable
      /\ lastResponse'.evaluation = NoEvaluation)
     => /\ InterviewMounted' /\ InterviewView' = "error"
        /\ error' = MissingEvaluation
        /\ ~loading'
        /\ feedback' = NoEvaluation /\ ~showFeedback'
        /\ dwells' = <<>> /\ dwells = <<>>
        /\ currentQuestion' = currentQuestion
        /\ questionNumber' = questionNumber
        /\ currentView' = currentView /\ sessionData' = sessionData]_vars
\* such a response carrying both interview_complete and next_question
C16_Witness ==
  /\ InterviewMounted /\ InterviewView = "error"
  /\ lastResponse.ok /\ lastResponse.parseable
  /\ lastResponse.evaluation = NoEvaluation
  /\ lastResponse.complete /\ lastResponse.next # NoQuestion
  /\ error = MissingEvaluation
  /\ questionNumber = 1

\* C17 (as claimed): after a non-2xx response whose body is not JSON, the
\* error view shows 'Server error (<status>): <raw body text>', built from
\* the status and the raw text of that response.
C17_ServerErrorMessage ==
  (/\ InterviewMounted
   /\ lastResponse.kind = "http" /\ ~lastResponse.ok /\ ~lastResponse.parseable)
  => /\ InterviewView = "error"
     /\ error = ServerErrorMessage(lastResponse.status, lastResponse.raw)

\* C18: at most one submit request is in flight or dwell timer pending at
\* any time, and only for the mounted Interview; a request is in flight
\* exactly while Interview is loading; and while either is pending the answer
\* form is not rendered and no Home or Try Again control is offered, so no
\* second request can be issued before the first has settled and its dwell
\* has ended.
C18_Pending == inflight # <<>> \/ dwells # <<>>
C18_SingleSubmission ==
  /\ Len(inflight) + Len(dwells) <= 1
  /\ (InterviewMounted /\ loading) = (inflight # <<>>)
  /\ C18_Pending =>
       /\ InterviewMounted
       /\ ~ARMounted
       /\ ~HomeButtonShown
       /\ InterviewView \in {"loading", "feedback"}
       /\ \A i \in DOMAIN inflight : ~inflight[i].stale
       /\ \A i \in DOMAIN dwells : ~dwells[i].stale
\* the dwell of the second question's submission is pending
C18_Witness ==
  /\ Len(dwells) = 1
  /\ inflight = <<>>
  /\ questionNumber = 2
  /\ InterviewView = "feedback"

\* C19: the step in which a submit request settles leaves loading false,
\* whatever the response (success, non-2xx with or without a JSON body,
\* network rejection, missing evaluation); loading becomes true only in the
\* step that sends a request and false only in the step that settles one;
\* and, every request settling eventually, a loading Interview eventually
\* stops loading.
C19_Settled == Len(inflight') < Len(inflight) => ~loading' /\ inflight' = <<>>
C19_Raised == (~loading /\ loading') => (inflight = <<>> /\ Len(inflight') = 1)
C19_Lowered == (loading /\ ~loading') => (Len(inflight) = 1 /\ inflight' = <<>>)
C19_LeavesSubmitting ==
  /\ [][C19_Settled /\ C19_Raised /\ C19_Lowered]_vars
  /\ (loading ~> ~loading)
\* a submission whose request was rejected by the network has left Submitting
C19_Witness ==
  /\ InterviewMounted
  /\ lastOutcome = "fail"
  /\ lastResponse.kind = "network"
  /\ ~loading
  /\ inflight = <<>>

\* C20: while a dwell timer is pending the Interview that scheduled it is
\* mounted and showing the feedback view, which offers no Home, Try Again or
\* Submit control; so a timer fires only in the interview view, for the
\* session that scheduled it, with that session unchanged by the step; and
\* onComplete runs only in a step that goes from the interview view to the
\* report view, never on the home or report view.
C20_WhilePending ==
  dwells # <<>>
  => /\ currentView = "interview" /\ sessionData.present
     /\ InterviewView = "feedback"
     /\ ~HomeButtonShown /\ ~ARMounted
     /\ \A i \in DOMAIN dwells : ~dwells[i].stale
C20_Fires ==
  Len(dwells') < Len(dwells)
  => /\ currentView = "interview"
     /\ currentView' \in {"interview", "report"}
     /\ sessionData' = sessionData
     /\ \A i \in DOMAIN dwells : ~dwells[i].stale
C20_OnComplete ==
  completeCount' > completeCount
  => /\ currentView = "interview" /\ currentView' = "report"
     /\ Len(dwells') < Len(dwells)
     /\ sessionData' = sessionData
C20_Changes ==
  (currentView = "interview" /\ currentView' = "interview"
   /\ currentQuestion' # currentQuestion)
  => /\ Len(dwells') < Len(dwells)
     /\ sessionData' = sessionData
C20_NoLateDwell ==
  /\ []C20_WhilePending
  /\ [][C20_Fires /\ C20_OnComplete /\ C20_Changes]_vars
\* the timer of the first question's submission has fired and ended the
\* interview: the report view is loading
C20_Witness ==
  /\ currentView = "report"
  /\ reportLoading
  /\ completeCount = 1
  /\ completedAt.number = 1
  /\ dwells = <<>>

====
